---- MODULE Spec2Model ----
(***************************************************************************)
(* Model of the dataset export pipeline of export_dataset/__main__.py:     *)
(* main() discovers the audio files, submits one ExportAudio.__call__ task *)
(* per file to a ThreadPoolExecutor and the tasks append their rows to the *)
(* shared metadata.csv under writer_lock.                                  *)
(***************************************************************************)
EXTENDS Integers, Sequences, FiniteSets, TLC

\* ---------------------------------------------------------------- bounds
NumFiles == 2
NumWorkers == 2
MaxRuns == 2

\* the audio files rglob discovers, in the order it yields them; they share
\* one extension (the glob's), so no two have the same output WAV path
Files == 1..NumFiles
\* the worker threads of the ThreadPoolExecutor
Workers == 1..NumWorkers

\* ------------------------------------------------------------- constants
NoFile == 0
NoWorker == 0
Null == -1
Header == 0

\* the values --threshold takes in the model: negative, zero, positive
Thresholds == {-1, 0, 1}
\* per-file failure the input provokes: none, the decode subprocess exits
\* non-zero, an error is raised while normalizing/trimming, the transcode
\* subprocess exits non-zero (a file without transcript is never processed,
\* so its fault is immaterial and fixed to "none")
Faults == {"none", "decode", "trim", "transcode"}
\* states of an output WAV on disk
WavStates == {"absent", "empty", "partial", "full"}

VARIABLES
    skip_existing_wav, \* args.skip_existing_wav
    threshold,         \* args.threshold
    text,              \* text[f]: the sibling .txt of audio file f exists
    fault,             \* fault[f]: the failure file f provokes
    wav,               \* wav[f]: state of f's output WAV on disk
    wav0,              \* wav[f] as it was when the current run started
    pc_main,           \* position of main()
    submitted,         \* number of files main() has submitted so far
    queue,             \* the executor's work queue
    metadata_file,     \* lines of metadata.csv
    file_open,         \* the metadata stream is open
    writer_lock,       \* the worker holding writer_lock, or NoWorker
    pc,                \* pc[w]: position of worker w inside a task
    cur,               \* cur[w]: the file of the task worker w runs
    detector,          \* detector[w]: the handle in w's thread_data, or NoWorker
    offset_sec,        \* offset_sec[w]: local of __call__
    duration_sec,      \* duration_sec[w]: local of __call__
    buf,               \* buf[w]: stream contents a row write started from
    outcome,           \* outcome[f]: how f's task ended
    decodes,           \* decodes[f]: decode subprocesses started for f
    transcodes,        \* transcodes[f]: transcode subprocesses started for f
    transcoded_ok,     \* transcoded_ok[f]: a transcode of this run exited 0
    command,           \* command[f]: <<-ss, -t>> of f's transcode command
    run,               \* number of the current run
    prev_table,        \* metadata.csv as the previous run left it
    store_reads,       \* bulk reads of the speaker/validation store, this run
    output_dir,        \* this run has called output_dir.mkdir
    exit_status,       \* exit status of the process, Null while it runs
    store,             \* store[f]: status the store holds for f's recording
    export_audio,      \* the tables ExportAudio was built with, Null before
    row_status,        \* row_status[f]: status written in f's row, this run
    constructed,       \* constructed[w]: detectors worker w has constructed
    \* ---- one task seen from the inside: its data path ----
    keep_chunks_before, \* args.keep_chunks_before
    keep_chunks_after,  \* args.keep_chunks_after
    samples_per_chunk,  \* args.samples_per_chunk
    user_filter,       \* user filter of the export request: "all" or a user id
    audio_path,        \* the recording's path relative to input_dir, as parts
    pcm,               \* the recording's samples as the transcoder decodes them
    user_mapping,      \* speaker table read from the store
    recording_status,  \* validation table read from the store
    task_pc,           \* position of the task
    audio_16khz_bytes, \* decoded signed 16-bit samples
    audio_16khz,       \* normalized samples, each <<numerator, denominator>>
    probs,             \* speech probability of each chunk, in halves
    task_offset_sec,   \* offset_sec of the task, a fraction <<n, d>>
    task_duration_sec, \* duration_sec of the task, a fraction or None
    task_command,      \* the transcode command the task ran
    task_row,          \* the row the task wrote
    \* ---- the web application: submit requests, sessions, user manager ----
    recordings,        \* recordings[<<u, p>>]: rows of user u for sentence p
    req_pc,            \* req_pc[r]: position of submit request r
    req_user,          \* req_user[r]: current_user.id of request r
    req_prompt,        \* req_prompt[r]: the sentence request r submits
    req_wrote,         \* req_wrote[r]: r saved its audio and transcript files
    submits,           \* submit requests received so far
    recording_session, \* recording_session[id]: the session row, or None
    session_recordings, \* session_recordings[id]: recording rows with that session_id
    users,             \* UserManager.users: user id -> user
    users_json         \* contents of the file at storage_path

vars == <<skip_existing_wav, threshold, text, fault, wav, wav0,
          pc_main, submitted, queue, metadata_file, file_open, writer_lock,
          pc, cur, detector, offset_sec, duration_sec, buf, outcome,
          decodes, transcodes, transcoded_ok, command, run, prev_table,
          store_reads, output_dir, exit_status,
          store, export_audio, row_status, constructed,
          keep_chunks_before, keep_chunks_after, samples_per_chunk,
          user_filter, audio_path, pcm, user_mapping, recording_status, task_pc,
          audio_16khz_bytes, audio_16khz, probs, task_offset_sec,
          task_duration_sec, task_command, task_row,
          recordings, req_pc, req_user, req_prompt, req_wrote, submits,
          recording_session, session_recordings, users, users_json>>

submitv == <<recordings, req_pc, req_user, req_prompt, req_wrote, submits>>
sessionv == <<recording_session, session_recordings>>
userv == <<users, users_json>>
webv == <<submitv, sessionv, userv>>
taskv == <<keep_chunks_before, keep_chunks_after, samples_per_chunk,
           user_filter, audio_path, pcm, user_mapping, recording_status, task_pc,
           audio_16khz_bytes, audio_16khz, probs, task_offset_sec,
           task_duration_sec, task_command, task_row>>
inputs == <<threshold, text, fault, store, taskv, webv>>
snapv == <<export_audio, row_status, constructed>>
procv == <<store_reads, output_dir, exit_status>>
mainv == <<pc_main, submitted, file_open, run, prev_table, skip_existing_wav,
          wav0, procv>>
locals == <<offset_sec, duration_sec, buf>>
hist == <<decodes, transcodes, transcoded_ok, command>>

\* ------------------------------------------------------------- helpers
\* lines 345-353: the data row of file f, identified by its wav_id
Row(f) == f

\* line 268: the WAV exists and its st_size is not 0
NonEmpty(s) == s \in {"partial", "full"}

\* faulty variant: the size of the existing WAV is not looked at
SizeIgnored(skip, w) == (~skip) \/ (w = "absent")

\* faulty variant: --skip-existing-wav is not honoured
FlagIgnored(skip, w) == TRUE

\* lines 267-269: the condition under which the file is (re)processed
NeedsProcessing(skip, w) == (~skip) \/ ((w = "absent") \/ (w = "empty"))

\* outcomes trim_silence can return: <<offset, duration>>, Null = None
TrimOutcomes == {<<0, Null>>, <<1, 2>>}

\* number of data rows of file f in a table (line 1 is the header)
RowsOf(table, f) == Cardinality({i \in 1..Len(table) : i > 1 /\ table[i] = Row(f)})

\* Python's None where the other values are tuples.
None == <<>>

\* ---- the web application beside the export ----
\* contribution_rules.py lines 11-12
MAX_RECORDINGS_PER_SENTENCE == 5
RECORDINGS_PER_SESSION == 5

\* submit requests the server handles at the same time
NumRequests == 2
\* submit requests followed in one behaviour
MaxSubmits == 3
\* users who submit while the model runs
NumContributors == 2
\* sentences (language, prompt_group, prompt_id) on offer
NumPrompts == 2
\* session rows the model lets the table grow to
NumSessions == 3
\* recording rows the model lets one session id collect
MaxSessionRecordings == 6
\* user ids the user manager hands out in the model
MaxUsers == 3

Requests == 1..NumRequests
Contributors == 1..NumContributors
\* users who recorded before the model starts: enough to saturate a sentence
EarlierUsers == (NumContributors + 1)..(NumContributors + MAX_RECORDINGS_PER_SENTENCE)
Recorders == Contributors \cup EarlierUsers
Prompts == 1..NumPrompts
SessionIds == 1..NumSessions

\* While the export is followed, the web application does not move.
WebAtRest ==
    /\ recordings = [k \in Recorders \X Prompts |-> 0]
    /\ req_pc = [r \in Requests |-> "idle"]
    /\ req_user = [r \in Requests |-> 0]
    /\ req_prompt = [r \in Requests |-> 0]
    /\ req_wrote = [r \in Requests |-> FALSE]
    /\ submits = 0
    /\ recording_session = [id \in SessionIds |-> None]
    /\ session_recordings = [id \in SessionIds |-> 0]
    /\ users = <<>>
    /\ users_json = <<>>

\* The data path of a single task is followed in a specification of its own
\* (TaskSpec); while the pipeline specification runs, it is at rest.
TaskAtRest ==
    /\ keep_chunks_before = 0
    /\ keep_chunks_after = 0
    /\ samples_per_chunk = 1
    /\ user_filter = "all"
    /\ audio_path = <<>>
    /\ pcm = <<>>
    /\ user_mapping = <<>>
    /\ recording_status = <<>>
    /\ task_pc = "off"
    /\ audio_16khz_bytes = <<>>
    /\ audio_16khz = <<>>
    /\ probs = <<>>
    /\ task_offset_sec = None
    /\ task_duration_sec = None
    /\ task_command = None
    /\ task_row = None

Init ==
    /\ TaskAtRest
    /\ WebAtRest
    /\ skip_existing_wav \in BOOLEAN
    /\ threshold \in Thresholds
    /\ text \in [Files -> BOOLEAN]
    /\ fault \in [Files -> Faults]
    /\ \A f \in Files : ~text[f] => fault[f] = "none"
    /\ wav \in [Files -> WavStates \ {"partial"}]
    /\ wav0 = wav
    /\ pc_main = "start"
    /\ submitted = 0
    /\ queue = <<>>
    /\ metadata_file = <<>>
    /\ file_open = FALSE
    /\ writer_lock = NoWorker
    /\ pc = [w \in Workers |-> "idle"]
    /\ cur = [w \in Workers |-> NoFile]
    /\ detector = [w \in Workers |-> NoWorker]
    /\ offset_sec = [w \in Workers |-> 0]
    /\ duration_sec = [w \in Workers |-> Null]
    /\ buf = [w \in Workers |-> <<>>]
    /\ outcome = [f \in Files |-> "none"]
    /\ decodes = [f \in Files |-> 0]
    /\ transcodes = [f \in Files |-> 0]
    /\ transcoded_ok = [f \in Files |-> FALSE]
    /\ command = [f \in Files |-> <<Null, Null>>]
    /\ run = 1
    /\ prev_table = <<>>
    /\ store_reads = 0
    /\ output_dir = FALSE
    /\ exit_status = Null
    /\ store = [f \in Files |-> "pending"]
    /\ export_audio = None
    /\ row_status = [f \in Files |-> "none"]
    /\ constructed = [w \in Workers |-> 0]

\* ------------------------------------------------------------ main()
\* lines 203-205: the transcoder check, fatal when ffmpeg is not on the path
\* What the operating system sees when the module is run as a program: the
\* entry guard calls main() and drops what it returns, so the interpreter ends
\* with status 0 whatever main returned.
ExitStatus(returned) == 0

\* faulty variant: the output directory is created before the ffmpeg check
MainCheckAfterMkdir ==
    /\ pc_main = "start"
    /\ output_dir' = TRUE
    /\ \E which \in BOOLEAN :
          /\ pc_main' = IF which THEN "open" ELSE "fatal"
          /\ exit_status' = IF which THEN exit_status ELSE ExitStatus(1)
    /\ UNCHANGED <<inputs, snapv, skip_existing_wav, wav, wav0, submitted, queue,
                   metadata_file, file_open, writer_lock, pc, cur, detector,
                   locals, outcome, hist, run, prev_table, store_reads>>

\* shutil.which("ffmpeg"): when the transcoder is not on the search path main
\* logs a fatal message and returns 1 before it touches anything else.
MainCheck ==
    /\ pc_main = "start"
    /\ \E which \in BOOLEAN :
          /\ pc_main' = IF which THEN "open" ELSE "fatal"
          /\ exit_status' = IF which THEN exit_status ELSE ExitStatus(1)
    /\ UNCHANGED <<inputs, snapv, skip_existing_wav, wav, wav0, submitted, queue,
                   metadata_file, file_open, writer_lock, pc, cur, detector,
                   locals, outcome, hist, run, prev_table, store_reads,
                   output_dir>>

\* faulty variant: metadata.csv is opened for appending, not truncated
MainOpenAppend ==
    /\ pc_main = "open"
    /\ file_open' = TRUE
    /\ pc_main' = "header"
    /\ output_dir' = TRUE
    /\ store_reads' = store_reads + 1
    /\ export_audio' = store
    /\ UNCHANGED <<inputs, row_status, constructed, skip_existing_wav, wav, wav0, submitted, queue,
                   metadata_file, writer_lock, pc, cur, detector, locals,
                   outcome, hist, run, prev_table, exit_status>>

\* lines 207-220: output directory, store snapshot, metadata.csv opened "w"
MainOpen ==
    /\ pc_main = "open"
    /\ metadata_file' = <<>>
    /\ file_open' = TRUE
    /\ pc_main' = "header"
    /\ output_dir' = TRUE
    /\ store_reads' = store_reads + 1
    /\ export_audio' = store
    /\ UNCHANGED <<inputs, row_status, constructed, skip_existing_wav, wav, wav0, submitted, queue,
                   writer_lock, pc, cur, detector, locals, outcome, hist,
                   run, prev_table, exit_status>>

\* lines 222-226: the header row, then the lock is created
MainHeader ==
    /\ pc_main = "header"
    /\ metadata_file' = Append(metadata_file, Header)
    /\ writer_lock' = NoWorker
    /\ pc_main' = "dispatch"
    /\ UNCHANGED <<inputs, snapv, skip_existing_wav, wav, wav0, submitted, queue,
                   file_open, pc, cur, detector, locals, outcome, hist,
                   run, prev_table, procv>>

\* lines 227-236: one executor.submit per discovered file
Submit ==
    /\ pc_main = "dispatch"
    /\ submitted < NumFiles
    /\ submitted' = submitted + 1
    /\ queue' = Append(queue, submitted + 1)
    /\ UNCHANGED <<inputs, snapv, skip_existing_wav, wav, wav0, pc_main,
                   metadata_file, file_open, writer_lock, pc, cur, detector,
                   locals, outcome, hist, run, prev_table, procv>>

\* line 227: rglob is exhausted, the with block is left
EndDispatch ==
    /\ pc_main = "dispatch"
    /\ submitted = NumFiles
    /\ pc_main' = "shutdown"
    /\ UNCHANGED <<inputs, snapv, skip_existing_wav, wav, wav0, submitted, queue,
                   metadata_file, file_open, writer_lock, pc, cur, detector,
                   locals, outcome, hist, run, prev_table, procv>>

\* faulty variant: the pool is shut down without waiting for its tasks
PoolNotAwaited == TRUE

\* the pool has no task queued or running
PoolIdle == queue = <<>> /\ \A w \in Workers : pc[w] = "idle"

\* line 220: ThreadPoolExecutor.__exit__ is shutdown(wait=True); it returns
\* when every submitted task has run
Shutdown ==
    /\ pc_main = "shutdown"
    /\ PoolIdle
    /\ pc_main' = "close"
    /\ UNCHANGED <<inputs, snapv, skip_existing_wav, wav, wav0, submitted, queue,
                   metadata_file, file_open, writer_lock, pc, cur, detector,
                   locals, outcome, hist, run, prev_table, procv>>

\* line 218: the metadata stream's __exit__ closes it; main() returns
Close ==
    /\ pc_main = "close"
    /\ file_open' = FALSE
    /\ pc_main' = "done"
    /\ exit_status' = ExitStatus(Null)
    /\ UNCHANGED <<inputs, snapv, skip_existing_wav, wav, wav0, submitted, queue,
                   metadata_file, writer_lock, pc, cur, detector, locals,
                   outcome, hist, run, prev_table, store_reads, output_dir>>

\* a later run of the program over the same input and output directories
Rerun ==
    /\ pc_main = "done"
    /\ run < MaxRuns
    /\ run' = run + 1
    /\ prev_table' = metadata_file
    /\ skip_existing_wav' \in BOOLEAN
    /\ wav0' = wav
    /\ pc_main' = "start"
    /\ submitted' = 0
    /\ detector' = [w \in Workers |-> NoWorker]
    /\ outcome' = [f \in Files |-> "none"]
    /\ decodes' = [f \in Files |-> 0]
    /\ transcodes' = [f \in Files |-> 0]
    /\ transcoded_ok' = [f \in Files |-> FALSE]
    /\ command' = [f \in Files |-> <<Null, Null>>]
    /\ store_reads' = 0
    /\ output_dir' = FALSE
    /\ exit_status' = Null
    /\ export_audio' = None
    /\ row_status' = [f \in Files |-> "none"]
    /\ constructed' = [w \in Workers |-> 0]
    /\ UNCHANGED <<inputs, wav, queue, metadata_file, file_open, writer_lock,
                   pc, cur, locals>>

\* ------------------------------------------- ExportAudio.__call__ (a task)
\* a worker thread of the pool takes the next task off the work queue
Take(w) ==
    /\ pc[w] = "idle"
    /\ queue # <<>>
    /\ cur' = [cur EXCEPT ![w] = Head(queue)]
    /\ queue' = Tail(queue)
    /\ pc' = [pc EXCEPT ![w] = "check_text"]
    /\ UNCHANGED <<inputs, snapv, mainv, wav, metadata_file, writer_lock, detector,
                   locals, outcome, hist>>

\* faulty variant: the transcript test is missing, the task goes on without it
CheckTextMissing(w) ==
    /\ pc[w] = "check_text"
    /\ pc' = [pc EXCEPT ![w] = "detector"]
    /\ UNCHANGED <<inputs, snapv, mainv, wav, queue, metadata_file, writer_lock,
                   cur, detector, locals, outcome, hist>>

\* lines 255-258: no sibling transcript: warn and return
CheckText(w) ==
    /\ pc[w] = "check_text"
    /\ IF text[cur[w]]
         THEN /\ pc' = [pc EXCEPT ![w] = "detector"]
              /\ UNCHANGED <<cur, outcome>>
         ELSE /\ pc' = [pc EXCEPT ![w] = "idle"]
              /\ outcome' = [outcome EXCEPT ![cur[w]] = "no_text"]
              /\ cur' = [cur EXCEPT ![w] = NoFile]
    /\ UNCHANGED <<inputs, snapv, mainv, wav, queue, metadata_file, writer_lock,
                   detector, locals, hist>>

\* lines 260-265: the thread's detector is made on first use; text and paths
\* hasattr(self.thread_data, "detector"): thread_data is thread-local, so a
\* worker sees only what it stored itself.
HasDetector(w) == detector[w] # NoWorker

\* faulty variant: the detector is an attribute all workers share
MakeSharedDetector(w) == [v \in Workers |-> w]

\* self.thread_data.detector = make_silence_detector(): the new handle, named
\* after the worker that constructs it, is stored for this worker alone.
MakeSilenceDetector(w) == [detector EXCEPT ![w] = w]

MakeDetector(w) ==
    /\ pc[w] = "detector"
    /\ IF HasDetector(w)
         THEN UNCHANGED <<detector, constructed>>
         ELSE /\ detector' = MakeSilenceDetector(w)
              /\ constructed' = [constructed EXCEPT ![w] = @ + 1]
    /\ pc' = [pc EXCEPT ![w] = "check_wav"]
    /\ UNCHANGED <<inputs, export_audio, row_status, mainv, wav, queue, metadata_file, writer_lock,
                   cur, locals, outcome, hist>>

\* faulty variant: only a negative threshold disables trimming
TrimDisabledBelowZero(t) == t < 0

\* line 270: a threshold that is not positive disables trimming
TrimDisabled(t) == t <= 0

\* lines 267-272: skip-existing test, and the threshold <= 0 short cut
CheckWav(w) ==
    /\ pc[w] = "check_wav"
    /\ IF NeedsProcessing(skip_existing_wav, wav[cur[w]])
         THEN IF TrimDisabled(threshold)
                THEN /\ offset_sec' = [offset_sec EXCEPT ![w] = 0]
                     /\ duration_sec' = [duration_sec EXCEPT ![w] = Null]
                     /\ pc' = [pc EXCEPT ![w] = "transcode"]
                ELSE /\ pc' = [pc EXCEPT ![w] = "decode"]
                     /\ UNCHANGED <<offset_sec, duration_sec>>
         ELSE /\ pc' = [pc EXCEPT ![w] = "lock"]
              /\ UNCHANGED <<offset_sec, duration_sec>>
    /\ UNCHANGED <<inputs, snapv, mainv, wav, queue, metadata_file, writer_lock,
                   cur, detector, buf, outcome, hist>>

\* faulty variant: the exit status of the subprocess is ignored
ExitStatusIgnored(f, step) == FALSE

\* check_output / check_call raise CalledProcessError on a non-zero exit
CalledProcessError(f, step) == fault[f] = step

\* lines 356-357: except Exception: the error is logged and the task returns
OnException == "error"

\* the except branch: the task ends without a row
Except(w) ==
    /\ pc' = [pc EXCEPT ![w] = "idle"]
    /\ outcome' = [outcome EXCEPT ![cur[w]] = OnException]
    /\ cur' = [cur EXCEPT ![w] = NoFile]
    /\ offset_sec' = [offset_sec EXCEPT ![w] = 0]
    /\ duration_sec' = [duration_sec EXCEPT ![w] = Null]

\* lines 279-295: the decode subprocess (16 kHz mono PCM on a pipe)
Decode(w) ==
    /\ pc[w] = "decode"
    /\ decodes' = [decodes EXCEPT ![cur[w]] = @ + 1]
    /\ IF CalledProcessError(cur[w], "decode")
         THEN Except(w)
         ELSE /\ pc' = [pc EXCEPT ![w] = "trim"]
              /\ UNCHANGED <<cur, outcome, offset_sec, duration_sec>>
    /\ UNCHANGED <<inputs, snapv, mainv, wav, queue, metadata_file, writer_lock,
                   detector, buf, transcodes, transcoded_ok, command>>

\* lines 297-311: normalization and trim_silence
Trim(w) ==
    /\ pc[w] = "trim"
    /\ IF fault[cur[w]] = "trim"
         THEN Except(w)
         ELSE /\ \E r \in TrimOutcomes :
                    /\ offset_sec' = [offset_sec EXCEPT ![w] = r[1]]
                    /\ duration_sec' = [duration_sec EXCEPT ![w] = r[2]]
              /\ pc' = [pc EXCEPT ![w] = "transcode"]
              /\ UNCHANGED <<cur, outcome>>
    /\ UNCHANGED <<inputs, snapv, mainv, wav, queue, metadata_file, writer_lock,
                   detector, buf, hist>>

\* what a transcode that will fail leaves at the output path once started
Leftover(old) == {old, "empty", "partial"}

\* lines 314-332: the transcode subprocess is started (ffmpeg -y ... wav_path)
TranscodeStart(w) ==
    /\ pc[w] = "transcode"
    /\ command' = [command EXCEPT ![cur[w]] = <<offset_sec[w], duration_sec[w]>>]
    /\ transcodes' = [transcodes EXCEPT ![cur[w]] = @ + 1]
    /\ IF fault[cur[w]] = "transcode"
         THEN \E s \in Leftover(wav[cur[w]]) : wav' = [wav EXCEPT ![cur[w]] = s]
         ELSE wav' = [wav EXCEPT ![cur[w]] = "partial"]
    /\ pc' = [pc EXCEPT ![w] = "transcoding"]
    /\ UNCHANGED <<inputs, snapv, mainv, queue, metadata_file, writer_lock, cur,
                   detector, locals, outcome, decodes, transcoded_ok>>

\* line 332: check_call returns when the transcoder has exited
TranscodeEnd(w) ==
    /\ pc[w] = "transcoding"
    /\ IF fault[cur[w]] = "transcode"
         THEN UNCHANGED <<wav, transcoded_ok>>
         ELSE /\ wav' = [wav EXCEPT ![cur[w]] = "full"]
              /\ transcoded_ok' = [transcoded_ok EXCEPT ![cur[w]] = TRUE]
    /\ IF CalledProcessError(cur[w], "transcode")
         THEN Except(w)
         ELSE /\ pc' = [pc EXCEPT ![w] = "lock"]
              /\ UNCHANGED <<cur, outcome, offset_sec, duration_sec>>
    /\ UNCHANGED <<inputs, snapv, mainv, queue, metadata_file, writer_lock,
                   detector, buf, decodes, transcodes, command>>

\* faulty variant: the lock is not shared, every task sees it free
LockPerTask(w) == TRUE

\* threading.Lock: acquire blocks while another thread holds the lock
LockFree(w) == writer_lock = NoWorker

\* faulty variant: the row is written without taking the lock
AcquireNothing(w) ==
    /\ pc[w] = "lock"
    /\ pc' = [pc EXCEPT ![w] = "write"]
    /\ UNCHANGED <<inputs, snapv, mainv, wav, queue, metadata_file, writer_lock,
                   cur, detector, locals, outcome, hist>>

\* line 334: with writer_lock
Acquire(w) ==
    /\ pc[w] = "lock"
    /\ LockFree(w)
    /\ writer_lock' = w
    /\ pc' = [pc EXCEPT ![w] = "write"]
    /\ UNCHANGED <<inputs, snapv, mainv, wav, queue, metadata_file, cur, detector,
                   locals, outcome, hist>>

\* lines 336-345: metadata is resolved and writerow starts at the stream's end
WriteRowBegin(w) ==
    /\ pc[w] = "write"
    /\ buf' = [buf EXCEPT ![w] = metadata_file]
    /\ pc' = [pc EXCEPT ![w] = "writing"]
    /\ UNCHANGED <<inputs, snapv, mainv, wav, queue, metadata_file, writer_lock,
                   cur, detector, offset_sec, duration_sec, outcome, hist>>

\* lines 345-353: writerow puts the row after what it found in the stream
\* faulty variant: the status is asked of the store when the row is written
RowStatusRequeried(f) == store[f]

\* The status a row gets: looked up in the tables the run read at its start.
RowStatus(f) == export_audio[f]

WriteRowEnd(w) ==
    /\ pc[w] = "writing"
    /\ metadata_file' = Append(buf[w], Row(cur[w]))
    /\ row_status' = [row_status EXCEPT ![cur[w]] = RowStatus(cur[w])]
    /\ buf' = [buf EXCEPT ![w] = <<>>]
    /\ pc' = [pc EXCEPT ![w] = "unlock"]
    /\ UNCHANGED <<inputs, export_audio, constructed, mainv, wav, queue, writer_lock, cur, detector,
                   offset_sec, duration_sec, outcome, hist>>

\* lines 353-355: the with block is left, the path is printed, the task ends
Release(w) ==
    /\ pc[w] = "unlock"
    /\ writer_lock' = IF writer_lock = w THEN NoWorker ELSE writer_lock
    /\ outcome' = [outcome EXCEPT ![cur[w]] = "ok"]
    /\ cur' = [cur EXCEPT ![w] = NoFile]
    /\ pc' = [pc EXCEPT ![w] = "idle"]
    /\ offset_sec' = [offset_sec EXCEPT ![w] = 0]
    /\ duration_sec' = [duration_sec EXCEPT ![w] = Null]
    /\ UNCHANGED <<inputs, snapv, mainv, wav, queue, metadata_file, detector,
                   buf, hist>>

Task(w) ==
    \/ Take(w)
    \/ CheckText(w)
    \/ MakeDetector(w)
    \/ CheckWav(w)
    \/ Decode(w)
    \/ Trim(w)
    \/ TranscodeStart(w)
    \/ TranscodeEnd(w)
    \/ Acquire(w)
    \/ WriteRowBegin(w)
    \/ WriteRowEnd(w)
    \/ Release(w)

Main ==
    \/ MainCheck
    \/ MainOpen
    \/ MainHeader
    \/ Submit
    \/ EndDispatch
    \/ Shutdown
    \/ Close

Next ==
    \/ Main
    \/ \E w \in Workers : Task(w)
    \/ Rerun

Spec == Init /\ [][Next]_vars

\* the scheduler runs every thread that can take a step; subprocesses return
FairSpec ==
    /\ Spec
    /\ WF_vars(Main)
    /\ \A w \in Workers : WF_vars(Task(w))

\* ------------------------------------------------------- claim vocabulary
Done == pc_main = "done"

\* metadata.csv holds the table of the current run (it is opened and
\* truncated by MainOpen; before that it still holds the previous run's)
TableOfRun == pc_main \in {"header", "dispatch", "shutdown", "close", "done"}

\* the skip-existing case of a file, from what was on disk at the run's start
SkipCase(f) == skip_existing_wav /\ NonEmpty(wav0[f])

\* how f's task must end, as a function of f's own inputs and the arguments
ExpectedOutcome(f) ==
    IF ~text[f] THEN "no_text"
    ELSE IF SkipCase(f) THEN "ok"
    ELSE IF threshold > 0 /\ fault[f] \in {"decode", "trim"} THEN "error"
    ELSE IF fault[f] = "transcode" THEN "error"
    ELSE "ok"

\* f was processed successfully in this run
Processed(f) == text[f] /\ (transcoded_ok[f] \/ SkipCase(f))

\* worker w is inside the with writer_lock block
InWrite(w) == pc[w] \in {"write", "writing", "unlock"}

\* ------------------------------------------------------------------ C1
C1_Safety ==
    /\ \A f \in Files : TableOfRun /\ ~text[f] =>
          /\ RowsOf(metadata_file, f) = 0
          /\ decodes[f] = 0
          /\ transcodes[f] = 0
          /\ outcome[f] \in {"none", "no_text"}
    /\ Done => \A g \in Files :
          text[g] /\ ExpectedOutcome(g) = "ok" => RowsOf(metadata_file, g) = 1

\* C1: a discovered file without sibling transcript never gets a metadata
\* row and never has a decode or transcode subprocess started for it; the
\* run still completes, and every file with a transcript whose steps succeed
\* has its row when the run is done.
C1_MissingTranscriptSkipped ==
    /\ [](C1_Safety)
    /\ (pc_main = "open" /\ \E f \in Files : ~text[f]) ~> Done

C1_Witness ==
    /\ Done
    /\ \E f, g \in Files :
          /\ ~text[f] /\ outcome[f] = "no_text"
          /\ text[g] /\ transcoded_ok[g] /\ RowsOf(metadata_file, g) = 1

C3_ExactlyOneRow ==
    /\ TableOfRun => \A f \in Files : RowsOf(metadata_file, f) <= 1
    /\ Done =>
          /\ \A f \in Files :
                RowsOf(metadata_file, f) = IF Processed(f) THEN 1 ELSE 0
          /\ Len(metadata_file) = 1 + Cardinality({f \in Files : Processed(f)})
          /\ metadata_file[1] = Header

C3_Witness ==
    /\ Done
    /\ Len(metadata_file) = 1 + NumFiles
    /\ \A f \in Files : Processed(f)
    /\ \E f \in Files : transcoded_ok[f]

\* ------------------------------------------------------------------ C4
\* C4: a row write happens only while holding writer_lock, so two workers
\* are never inside a row write at once, and while the main thread writes
\* the header no task has been submitted and no worker writes a row.
C4_WritesSerialized ==
    /\ \A w \in Workers : InWrite(w) => writer_lock = w
    /\ \A v, w \in Workers : InWrite(v) /\ InWrite(w) => v = w
    /\ pc_main = "header" =>
          /\ submitted = 0
          /\ \A w \in Workers : pc[w] = "idle"

C4_Witness ==
    \E v, w \in Workers :
        /\ v # w
        /\ pc[v] = "writing"
        /\ pc[w] = "lock"

C6_DoneAfterTasks ==
    pc_main \in {"close", "done"} =>
        /\ submitted = NumFiles
        /\ PoolIdle
        /\ \A f \in Files : outcome[f] \in {"no_text", "ok", "error"}

\* C6: with fair scheduling and returning subprocesses, every run that
\* passes the transcoder check reaches DONE, and main() is past the pool's
\* shutdown only when every submitted task has finished, be it with a row,
\* skipped for its missing transcript, or failed.
C6_RunReachesDone ==
    /\ [](C6_DoneAfterTasks)
    /\ (pc_main = "open") ~> Done

C6_Witness ==
    /\ Done
    /\ \E f, g, h \in Files :
          /\ outcome[f] = "error"
          /\ outcome[g] \in {"ok", "no_text"}
          /\ outcome[h] # "none"

\* ------------------------------------------------------------------ C7
\* every file with a transcript had a non-empty output WAV when the run began
AllWavsPresent == \A f \in Files : text[f] => NonEmpty(wav0[f])

\* C7: a run with skip-existing over a directory in which every file with a
\* transcript already has a non-empty output WAV starts no decode and no
\* transcode subprocess, in every state of the run.
C7_RerunStartsNoSubprocess ==
    skip_existing_wav /\ AllWavsPresent =>
        \A f \in Files : decodes[f] = 0 /\ transcodes[f] = 0

C7_Witness ==
    /\ run = 2
    /\ Done
    /\ skip_existing_wav /\ AllWavsPresent
    /\ \A f \in Files : text[f] /\ wav0[f] = "full"
    /\ \A f \in Files : RowsOf(prev_table, f) = 1 /\ RowsOf(metadata_file, f) = 1

\* ------------------------------------------------------------------ C8
\* the previous run gave every file with a transcript its row
PrevComplete ==
    /\ run >= 2
    /\ Len(prev_table) >= 1
    /\ \A f \in Files : text[f] => RowsOf(prev_table, f) = 1

\* C8 as stated: the re-run's table equals the first run's, row for row
C8_Original ==
    Done /\ skip_existing_wav /\ PrevComplete => metadata_file = prev_table

\* C8: a re-run with skip-existing over a fully processed directory writes
\* the same header and the same data rows as the first run, each once; the
\* order of the data rows is the order in which the tasks reach the lock and
\* may differ between the runs.
C8_SameRows ==
    Done /\ skip_existing_wav /\ PrevComplete =>
        /\ Len(metadata_file) = Len(prev_table)
        /\ metadata_file[1] = prev_table[1]
        /\ \A f \in Files : RowsOf(metadata_file, f) = RowsOf(prev_table, f)

C8_Witness ==
    /\ Done /\ skip_existing_wav /\ PrevComplete
    /\ Len(prev_table) = 1 + NumFiles
    /\ metadata_file # prev_table

\* ------------------------------------------------------------------ C9
\* f's task has ended, one way or the other, and f has a transcript
Ended(f) == text[f] /\ outcome[f] \in {"ok", "error"}

\* C9 as stated, for the files whose steps do not fail: the three steps are
\* skipped iff skip-existing and a non-empty WAV; in every other case the
\* file is decoded, trimmed and transcoded; in both cases one row
C9_Original ==
    \A f \in Files : Ended(f) /\ fault[f] = "none" =>
        /\ (decodes[f] = 0 /\ transcodes[f] = 0) <=> SkipCase(f)
        /\ ~SkipCase(f) =>
              decodes[f] = 1 /\ transcodes[f] = 1 /\ wav[f] = "full"
        /\ RowsOf(metadata_file, f) = 1

\* C9: for a file with a transcript, decode, trim detection and transcode
\* are all skipped iff skip-existing is set and the WAV exists non-empty,
\* and the row is then appended. Otherwise the transcode is started, after a
\* decode and trim detection only when the threshold is positive; when no
\* step fails the WAV is written again and one row is appended, and when a
\* step fails the task ends there without a row.
C9_SkipOrProcess ==
    \A f \in Files : Ended(f) =>
        IF SkipCase(f)
          THEN /\ decodes[f] = 0 /\ transcodes[f] = 0
               /\ wav[f] = wav0[f]
               /\ RowsOf(metadata_file, f) = 1
          ELSE /\ decodes[f] = IF threshold > 0 THEN 1 ELSE 0
               /\ IF ExpectedOutcome(f) = "ok"
                    THEN /\ transcodes[f] = 1
                         /\ wav[f] = "full"
                         /\ RowsOf(metadata_file, f) = 1
                    ELSE /\ transcodes[f] = IF fault[f] = "transcode" THEN 1 ELSE 0
                         /\ RowsOf(metadata_file, f) = 0

C9_Witness ==
    \E f, g \in Files :
        /\ Ended(f) /\ SkipCase(f) /\ RowsOf(metadata_file, f) = 1
        /\ Ended(g) /\ ~SkipCase(g) /\ wav0[g] = "empty" /\ wav[g] = "full"
        /\ decodes[g] = 0 /\ transcodes[g] = 1
        /\ RowsOf(metadata_file, g) = 1

\* ----------------------------------------------------------------- C10
\* C10: with a threshold <= 0 nothing is decoded or trimmed: every task that
\* reaches the transcode holds offset 0 and no duration, and every transcode
\* command starts at 0 without a duration limit.
C10_ThresholdDisablesTrim ==
    threshold <= 0 =>
        /\ \A f \in Files :
              /\ decodes[f] = 0
              /\ transcodes[f] >= 1 => command[f] = <<0, Null>>
        /\ \A w \in Workers :
              /\ pc[w] \notin {"decode", "trim"}
              /\ offset_sec[w] = 0
              /\ duration_sec[w] = Null

C10_Witness ==
    /\ threshold = 0
    /\ \E f \in Files :
          /\ transcoded_ok[f]
          /\ command[f] = <<0, Null>>
          /\ RowsOf(metadata_file, f) = 1


\* ---------------------------------------------------------------------------
\* The data path of one task: decode, normalize, trim, transcode, resolve the
\* speaker and the validation status, write the row.  The task followed here
\* has its transcript and has to be processed (no usable WAV exists).
\* ---------------------------------------------------------------------------

MaxSamples == 4
MaxKeep == 2
MaxDepth == 3

\* Sample values of a decoded buffer: enough to have a negative sample of the
\* largest magnitude, zero, and a positive one.
SampleValues == {-2, 0, 1}

\* Speech probabilities and thresholds are counted in halves: 0, 1, 2 stand for
\* 0.0, 0.5 and 1.0, so that a probability can lie below, on and above a
\* threshold of 0.5.
Probabilities == {0, 1, 2}
TaskThresholds == {0, 1, 2}

vad_sample_rate == 16000

Min2(a, b) == IF a < b THEN a ELSE b
Max2(a, b) == IF a > b THEN a ELSE b
Abs(x) == IF x < 0 THEN -x ELSE x
MaxOf(S) == CHOOSE x \in S : \A y \in S : y <= x
MinOf(S) == CHOOSE x \in S : \A y \in S : x <= y
Range(s) == {s[i] : i \in 1..Len(s)}

\* Fractions <<n, d>> with d > 0 stand for seconds and for normalized samples;
\* a sample with d = 0 is what a floating-point division by zero leaves
\* (nan for 0/0, an infinity otherwise).
Frac(n, d) == <<n, d>>
FracEq(x, y) == x[1] * y[2] = y[1] * x[2]
IsNumber(x) == x[2] > 0
InUnitRange(x) == IsNumber(x) /\ -x[2] <= x[1] /\ x[1] <= x[2]

\* audio_16khz /= np.abs(np.max(audio_16khz)): the divisor is the absolute
\* value of the largest signed sample.  (np.max of an empty buffer raises; the
\* caller handles that case.)
Normalize(samples) ==
    LET divisor == Abs(MaxOf(Range(samples)))
    IN  [i \in 1..Len(samples) |-> Frac(samples[i], divisor)]

\* Number of chunks of samples_per_chunk samples in a buffer of n samples, the
\* last one padded when it is short.
NumChunks(n, spc) == (n + spc - 1) \div spc

\* trim_silence over the probabilities the classifier gave the chunks.  Chunk
\* indices count from 0 as in the description; p is indexed from 1.
trim_silence(p, thr, spc, rate, before, after) ==
    LET speech == {i \in 1..Len(p) : p[i] >= thr}
    IN  IF speech = {}
        THEN <<Frac(0, 1), None>>
        ELSE LET first == Max2(0, (MinOf(speech) - 1) - before)
                 last == Min2(Len(p) - 1, (MaxOf(speech) - 1) + after)
             IN  <<Frac(first * spc, rate),
                   Frac((last - first + 1) * spc, rate)>>


\* faulty variant: the two padding arguments are passed in each other's place
CallTrimSwapped(p) ==
    trim_silence(p, threshold, samples_per_chunk, vad_sample_rate,
                 keep_chunks_after, keep_chunks_before)

\* faulty variant: the chunk length is passed as the sample rate
CallTrimWrongRate(p) ==
    trim_silence(p, threshold, samples_per_chunk, samples_per_chunk,
                 keep_chunks_before, keep_chunks_after)

\* The call of trim_silence in the task: threshold, chunk length and padding
\* come from the arguments, the sample rate is the 16 kHz of the decoder.
CallTrim(p) ==
    trim_silence(p, threshold, samples_per_chunk, vad_sample_rate,
                 keep_chunks_before, keep_chunks_after)

\* ---- paths as the task handles them ----
\* A path is the sequence of its components and a component is a sequence of
\* tokens, so that startswith, replace, isdigit and with_suffix act on text
\* with structure: 'user_7' is <<"user_", "7">>, '001.webm' is
\* <<"001", ".webm">>.
Marker == "user_"
DigitTokens == {"7", "8", "001"}
Suffixes == {".webm", ".wav", ".txt"}
DirComponents ==
    {<<Marker, "7">>, <<Marker, "8">>, <<Marker, "x">>,
     <<Marker, Marker, "7">>, <<"teo">>, <<"g1">>}
\* The names the default glob *.webm matches are a stem followed by .webm; the
\* stem may be empty ('.webm') or itself look like a suffix ('.webm.webm').
FileStems == {<<"001">>, <<Marker, "7">>, <<>>, <<".webm">>}

SeqsUpTo(S, n) == UNION {[1..k -> S] : k \in 0..n}
Paths ==
    {dirs \o <<stem \o <<".webm">>>> :
        dirs \in SeqsUpTo(DirComponents, MaxDepth), stem \in FileStems}

\* Path.with_suffix: the suffix of the last component is replaced, or added
\* when the name has none.  A name that only starts with a dot ('.webm') has
\* no suffix.
WithSuffix(path, suffix) ==
    LET name == path[Len(path)]
        stem == IF Len(name) > 1 /\ name[Len(name)] \in Suffixes
                THEN SubSeq(name, 1, Len(name) - 1)
                ELSE name
    IN  [path EXCEPT ![Len(path)] = stem \o <<suffix>>]

\* str(path): the components joined with the separator.
RECURSIVE Str(_)
Str(path) ==
    IF Len(path) = 0 THEN <<>>
    ELSE IF Len(path) = 1 THEN path[1]
    ELSE path[1] \o <<"/">> \o Str(Tail(path))

\* int(text) and str(number) on the digit strings that occur.
TokenValue(t) == CASE t = "7" -> 7 [] t = "8" -> 8 [] t = "001" -> 1
TokenDigits(t) == IF t = "001" THEN 3 ELSE 1
RECURSIVE Pow10(_)
Pow10(n) == IF n = 0 THEN 1 ELSE 10 * Pow10(n - 1)
RECURSIVE ParseInt(_)
ParseInt(digits) ==
    IF Len(digits) = 0 THEN 0
    ELSE LET t == digits[Len(digits)]
         IN  ParseInt(SubSeq(digits, 1, Len(digits) - 1))
                 * Pow10(TokenDigits(t))
             + TokenValue(t)
IntStr(n) == CASE n = 1 -> "1" [] n = 7 -> "7" [] n = 8 -> "8"

StartsWithMarker(part) == Len(part) > 0 /\ part[1] = Marker
ReplaceMarker(part) == SelectSeq(part, LAMBDA t : t # Marker)
IsDigit(part) ==
    Len(part) > 0 /\ \A i \in 1..Len(part) : part[i] \in DigitTokens

\* ---- the store's two tables, as get_user_database_info builds them ----
UserRecord(id) ==
    [speaker_id |-> <<Marker, IntStr(id)>>,
     age |-> IF id = 7 THEN "18-25" ELSE "",
     gender |-> IF id = 7 THEN "female" ELSE ""]
UserMappings == {[id \in ids |-> UserRecord(id)] : ids \in {{}, {7}, {7, 8}}}

RecKey(user_id, language, prompt_group, prompt_id) ==
    <<Marker, IntStr(user_id), "/", language, "/", prompt_group, "/",
      prompt_id, ".wav">>
StatusTables ==
    LET k7 == RecKey(7, "teo", "g1", "001")
        k8 == RecKey(8, "teo", "g1", "001")
    IN  {[k \in {} |-> [status |-> "approved"]],
         [k \in {k7} |-> [status |-> "approved"]],
         [k \in {k7, k8} |-> [status |-> IF k = k7 THEN "rejected"
                                         ELSE "approved"]]}

Unknown == [speaker_id |-> <<"unknown">>, age |-> "", gender |-> ""]

\* The first component that starts with the marker, 0 when there is none: the
\* loop over path_parts stops at the first one it finds.
FirstMarked(path_parts) ==
    IF \E i \in 1..Len(path_parts) : StartsWithMarker(path_parts[i])
    THEN MinOf({i \in 1..Len(path_parts) : StartsWithMarker(path_parts[i])})
    ELSE 0

extract_speaker_info(path_parts, mapping) ==
    LET i == FirstMarked(path_parts)
        user_id_str == IF i = 0 THEN None ELSE ReplaceMarker(path_parts[i])
    IN  IF user_id_str # None /\ IsDigit(user_id_str)
        THEN LET user_id == ParseInt(user_id_str)
             IN  IF user_id \in DOMAIN mapping
                 THEN mapping[user_id]
                 ELSE [Unknown EXCEPT
                         !.speaker_id = <<Marker, IntStr(user_id)>>]
        ELSE Unknown

\* faulty variant: the status is looked up under the file name alone
StatusKeyNameOnly(wav_id) == Str(<<wav_id[Len(wav_id)]>>)

\* rec_key = str(wav_id)
StatusKey(wav_id) == Str(wav_id)

\* recording_status.get(rec_key, {}).get('status', 'pending')
StatusOf(table, wav_id) ==
    IF StatusKey(wav_id) \in DOMAIN table
    THEN table[StatusKey(wav_id)].status
    ELSE "pending"


\* ---- the task, step by step ----
pipev == <<skip_existing_wav, text, fault, wav, wav0, pc_main, submitted,
           queue, metadata_file, file_open, writer_lock, pc, cur, detector,
           offset_sec, duration_sec, buf, outcome, decodes, transcodes,
           transcoded_ok, command, run, prev_table, store_reads, output_dir,
           exit_status, store, snapv>>
taskin == <<threshold, keep_chunks_before, keep_chunks_after,
            samples_per_chunk, user_filter, audio_path, pcm, user_mapping,
            recording_status>>

\* The pipeline around the task does not move while the task is followed.
PipelineAtRest ==
    /\ skip_existing_wav = FALSE
    /\ text = [f \in Files |-> TRUE]
    /\ fault = [f \in Files |-> "none"]
    /\ wav = [f \in Files |-> "absent"]
    /\ wav0 = wav
    /\ pc_main = "start"
    /\ submitted = 0
    /\ queue = <<>>
    /\ metadata_file = <<>>
    /\ file_open = FALSE
    /\ writer_lock = NoWorker
    /\ pc = [w \in Workers |-> "idle"]
    /\ cur = [w \in Workers |-> NoFile]
    /\ detector = [w \in Workers |-> NoWorker]
    /\ offset_sec = [w \in Workers |-> 0]
    /\ duration_sec = [w \in Workers |-> Null]
    /\ buf = [w \in Workers |-> <<>>]
    /\ outcome = [f \in Files |-> "none"]
    /\ decodes = [f \in Files |-> 0]
    /\ transcodes = [f \in Files |-> 0]
    /\ transcoded_ok = [f \in Files |-> FALSE]
    /\ command = [f \in Files |-> <<Null, Null>>]
    /\ run = 1
    /\ prev_table = <<>>
    /\ store_reads = 0
    /\ output_dir = FALSE
    /\ exit_status = Null
    /\ store = [f \in Files |-> "pending"]
    /\ export_audio = None
    /\ row_status = [f \in Files |-> "none"]
    /\ constructed = [w \in Workers |-> 0]

\* The upload layout: user_<id>/<language>/<prompt_group>/<prompt_id>.webm
UploadedPath == <<<<Marker, "7">>, <<"teo">>, <<"g1">>, <<"001", ".webm">>>>

\* Recordings of every content, under one choice of the trimming arguments.
AudioCases ==
    /\ pcm \in SeqsUpTo(SampleValues, MaxSamples - 1)
    /\ threshold = 1
    /\ keep_chunks_before = 1
    /\ keep_chunks_after = 1
    /\ samples_per_chunk = 1
    /\ user_filter = "all"
    /\ audio_path = UploadedPath
    /\ user_mapping = [id \in {7} |-> UserRecord(id)]
    /\ recording_status \in {t \in StatusTables : DOMAIN t # {}}

\* Recordings of every length under every trimming argument.
TrimCases ==
    /\ pcm \in {[i \in 1..n |-> 1] : n \in 1..MaxSamples}
    /\ threshold \in TaskThresholds
    /\ keep_chunks_before \in 0..MaxKeep
    /\ keep_chunks_after \in 0..MaxKeep
    /\ samples_per_chunk \in {1, 2}
    /\ user_filter = "all"
    /\ audio_path = UploadedPath
    /\ user_mapping = [id \in {7} |-> UserRecord(id)]
    /\ recording_status = [k \in {} |-> [status |-> "approved"]]

\* Recordings at every path under every content of the store.
PathCases ==
    /\ pcm = <<1>>
    /\ threshold = 0
    /\ keep_chunks_before = 0
    /\ keep_chunks_after = 0
    /\ samples_per_chunk = 1
    /\ user_filter = "all"
    /\ audio_path \in Paths
    /\ user_mapping \in UserMappings
    /\ recording_status \in StatusTables

\* The recordings the web application has stored under its upload folder.
Uploads == {<<<<Marker, u>>, <<"teo">>, <<"g1">>, <<"001", ".webm">>>> :
               u \in {"7", "8"}}

\* faulty variant: the export always starts at the upload folder
InputDirRoot(filter) == <<>>

\* The input directory the admin export hands to the exporter, relative to
\* the upload folder: the folder itself for "all", else user_<filter>.
InputDir(filter) == IF filter = "all" THEN <<>> ELSE <<<<Marker, filter>>>>

IsUnder(path, dir) ==
    Len(dir) <= Len(path) /\ SubSeq(path, 1, Len(dir)) = dir
\* Path.relative_to
RelativeTo(path, dir) == SubSeq(path, Len(dir) + 1, Len(path))

\* Exports as the admin route starts them: threshold 0.5, every user filter,
\* every file found below the input directory, any content of the store.
ExportCases ==
    /\ pcm = <<1>>
    /\ threshold = 1
    /\ keep_chunks_before = 0
    /\ keep_chunks_after = 0
    /\ samples_per_chunk = 1
    /\ user_filter \in {"all", "7", "8"}
    /\ \E upload \in Uploads :
          /\ IsUnder(upload, InputDir(user_filter))
          /\ audio_path = RelativeTo(upload, InputDir(user_filter))
    /\ user_mapping \in UserMappings
    /\ recording_status \in StatusTables

TaskInit ==
    /\ PipelineAtRest
    /\ WebAtRest
    /\ AudioCases \/ TrimCases \/ PathCases \/ ExportCases
    /\ task_pc = "start"
    /\ audio_16khz_bytes = <<>>
    /\ audio_16khz = <<>>
    /\ probs = <<>>
    /\ task_offset_sec = None
    /\ task_duration_sec = None
    /\ task_command = None
    /\ task_row = None


\* wav_path below the output root (wav_dir = output_dir / "wav") and wav_id,
\* the same path relative to wav_dir.
wav_id == WithSuffix(audio_path, ".wav")
wav_path == <<<<"wav">>>> \o wav_id

\* faulty variant: a missing duration is passed on as a duration of zero
TranscodeCommandZeroLength(offset, duration) ==
    [input |-> Str(audio_path),
     ss |-> offset,
     t |-> IF duration # None THEN duration ELSE Frac(0, 1),
     output |-> Str(wav_path)]

\* The transcode command: -ss always, -t only when there is a duration (field
\* t is None when the option is left out).
TranscodeCommand(offset, duration) ==
    [input |-> Str(audio_path),
     ss |-> offset,
     t |-> IF duration # None THEN duration ELSE None,
     output |-> Str(wav_path)]

\* args.threshold <= 0: no decoding, no trimming.
T_Begin ==
    /\ task_pc = "start"
    /\ IF TrimDisabled(threshold)
       THEN /\ task_offset_sec' = Frac(0, 1)
            /\ task_duration_sec' = None
            /\ task_pc' = "transcode"
       ELSE /\ task_pc' = "decode"
            /\ UNCHANGED <<task_offset_sec, task_duration_sec>>
    /\ UNCHANGED <<pipev, webv, taskin, audio_16khz_bytes, audio_16khz, probs,
                   task_command, task_row>>

\* subprocess.check_output of the decoder: 16 kHz mono signed 16-bit samples.
T_Decode ==
    /\ task_pc = "decode"
    /\ audio_16khz_bytes' = pcm
    /\ task_pc' = "normalize"
    /\ UNCHANGED <<pipev, webv, taskin, audio_16khz, probs, task_offset_sec,
                   task_duration_sec, task_command, task_row>>

\* np.frombuffer(...).astype(np.float32), then the division.  np.max of an
\* empty buffer raises ValueError, which ends the task in its handler.
T_Normalize ==
    /\ task_pc = "normalize"
    /\ IF audio_16khz_bytes = <<>>
       THEN /\ task_pc' = OnException
            /\ UNCHANGED audio_16khz
       ELSE /\ audio_16khz' = Normalize(audio_16khz_bytes)
            /\ task_pc' = "trim"
    /\ UNCHANGED <<pipev, webv, taskin, audio_16khz_bytes, probs, task_offset_sec,
                   task_duration_sec, task_command, task_row>>

\* trim_silence: the classifier is a black box that gives every chunk some
\* probability.
T_Trim ==
    /\ task_pc = "trim"
    /\ \E p \in [1..NumChunks(Len(audio_16khz), samples_per_chunk)
                   -> Probabilities] :
          /\ probs' = p
          /\ task_offset_sec' = CallTrim(p)[1]
          /\ task_duration_sec' = CallTrim(p)[2]
    /\ task_pc' = "transcode"
    /\ UNCHANGED <<pipev, webv, taskin, audio_16khz_bytes, audio_16khz,
                   task_command, task_row>>

\* subprocess.check_call of the transcoder.
T_Transcode ==
    /\ task_pc = "transcode"
    /\ task_command' = TranscodeCommand(task_offset_sec, task_duration_sec)
    /\ task_pc' = "row"
    /\ UNCHANGED <<pipev, webv, taskin, audio_16khz_bytes, audio_16khz, probs,
                   task_offset_sec, task_duration_sec, task_row>>

\* Under the lock: resolve the speaker, look the status up, write the row.
T_Row ==
    /\ task_pc = "row"
    /\ LET speaker_info == extract_speaker_info(audio_path, user_mapping)
       IN  task_row' = [id |-> Str(wav_id),
                        text |-> "text",
                        audio_file |-> Str(wav_id),
                        speaker_id |-> speaker_info.speaker_id,
                        age |-> speaker_info.age,
                        gender |-> speaker_info.gender,
                        status |-> StatusOf(recording_status, wav_id)]
    /\ task_pc' = "done"
    /\ UNCHANGED <<pipev, webv, taskin, audio_16khz_bytes, audio_16khz, probs,
                   task_offset_sec, task_duration_sec, task_command>>

TaskNext ==
    T_Begin \/ T_Decode \/ T_Normalize \/ T_Trim \/ T_Transcode \/ T_Row

TaskSpec == TaskInit /\ [][TaskNext]_vars


\* ---------------------------------------------------------------------------
\* Claims about the data path of a task
\* ---------------------------------------------------------------------------

\* The task has been through trim_silence (trimming was not disabled).
Trimmed ==
    /\ task_pc \in {"transcode", "row", "done"}
    /\ ~TrimDisabled(threshold)
\* The chunks the classifier scored at or above the threshold, counted from 0.
SpeechChunks == {k \in 0..(Len(probs) - 1) : probs[k + 1] >= threshold}
Seconds(chunks) == Frac(chunks * samples_per_chunk, vad_sample_rate)

\* C11: when trimming is on (threshold > 0) and no chunk has a probability at
\* or above the threshold, trim_silence gives offset 0.0 and no duration: the
\* transcode command starts at 0 and carries no -t, so the file is kept whole,
\* and the task ends with its row written.
C11_SilentKeptWhole ==
    (Trimmed /\ SpeechChunks = {}) =>
        /\ FracEq(task_offset_sec, Frac(0, 1))
        /\ task_duration_sec = None
        /\ task_pc \in {"row", "done"} =>
              /\ FracEq(task_command.ss, Frac(0, 1))
              /\ task_command.t = None
        /\ task_pc = "done" =>
              /\ task_row # None
              /\ task_row.audio_file = Str(wav_id)
              /\ task_command.output = Str(wav_path)

C11_Witness ==
    /\ task_pc = "done"
    /\ threshold = 2
    /\ Len(probs) = 3
    /\ probs[2] = 1
    /\ SpeechChunks = {}
    /\ task_row # None

\* C12: when exactly one chunk k (of N, counted from 0) has a probability at
\* or above the threshold, a probability equal to the threshold included, the
\* offset is max(0, k-b) chunks and the duration min(N-1, k+a) - max(0, k-b) + 1
\* chunks, each chunk lasting samples_per_chunk / sample_rate seconds, and the
\* transcode command carries both; for N=20, k=10, b=a=2, 480 samples per chunk
\* at 16000 Hz trim_silence gives 0.24 s and 0.15 s.
C12_SingleSpeechChunk ==
    /\ \A k \in 0..(Len(probs) - 1) :
          (Trimmed /\ SpeechChunks = {k}) =>
              LET N == Len(probs)
                  lo == Max2(0, k - keep_chunks_before)
                  hi == Min2(N - 1, k + keep_chunks_after)
              IN  /\ FracEq(task_offset_sec, Seconds(lo))
                  /\ task_duration_sec # None
                  /\ FracEq(task_duration_sec, Seconds(hi - lo + 1))
                  /\ task_pc \in {"row", "done"} =>
                        /\ task_command.ss = task_offset_sec
                        /\ task_command.t = task_duration_sec
    /\ LET r == trim_silence([i \in 1..20 |-> IF i = 11 THEN 1 ELSE 0],
                             1, 480, 16000, 2, 2)
       IN  /\ FracEq(r[1], Frac(24, 100))
           /\ FracEq(r[2], Frac(15, 100))

C12_Witness ==
    /\ task_pc = "done"
    /\ threshold = 1
    /\ Len(probs) = 4
    /\ probs[3] = 1
    /\ SpeechChunks = {2}
    /\ keep_chunks_before = 1
    /\ keep_chunks_after = 2
    /\ task_duration_sec = Frac(3, vad_sample_rate)

\* C13: with at least one speech chunk, f and l the first and the last of
\* them, the kept range is [max(0, f - keep_chunks_before),
\* min(N-1, l + keep_chunks_after)]: it lies inside 0..N-1, contains every
\* speech chunk, and offset and duration are its start and its length in
\* chunks times samples_per_chunk / sample_rate.
C13_KeptRange ==
    (Trimmed /\ SpeechChunks # {}) =>
        LET N == Len(probs)
            f == MinOf(SpeechChunks)
            l == MaxOf(SpeechChunks)
            lo == Max2(0, f - keep_chunks_before)
            hi == Min2(N - 1, l + keep_chunks_after)
        IN  /\ 0 <= lo /\ lo <= hi /\ hi <= N - 1
            /\ SpeechChunks \subseteq lo..hi
            /\ FracEq(task_offset_sec, Seconds(lo))
            /\ task_duration_sec # None
            /\ FracEq(task_duration_sec, Seconds(hi - lo + 1))

C13_Witness ==
    /\ task_pc = "done"
    /\ threshold = 2
    /\ probs = <<0, 2, 0, 2>>
    /\ keep_chunks_before = 2
    /\ keep_chunks_after = 0


\* The task has normalized the buffer it decoded.
Normalized ==
    /\ task_pc \in {"trim", "transcode", "row", "done"}
    /\ audio_16khz # <<>>

\* C14: a decoded buffer whose samples are all zero is normalized without an
\* error into a defined all-zero buffer (it is passed through as it is), and
\* the task goes on to trimming, transcoding and its row.
C14_SilentBufferPassedThrough ==
    (audio_16khz_bytes # <<>> /\ \A i \in 1..Len(audio_16khz_bytes) :
                                    audio_16khz_bytes[i] = 0) =>
        /\ task_pc # OnException
        /\ Normalized =>
              \A i \in 1..Len(audio_16khz) :
                  IsNumber(audio_16khz[i]) /\ audio_16khz[i][1] = 0
        /\ task_pc = "done" => task_row # None


\* C15: a decoded buffer with at least one non-zero sample is divided by its
\* maximum absolute sample value, so every normalized sample lies in [-1, 1],
\* also when the sample of the largest magnitude is negative or the largest
\* signed sample is zero or negative.
C15_NormalizedIntoUnitRange ==
    (Normalized /\ \E i \in 1..Len(audio_16khz_bytes) :
                      audio_16khz_bytes[i] # 0) =>
        LET peak == MaxOf({Abs(audio_16khz_bytes[i]) :
                              i \in 1..Len(audio_16khz_bytes)})
        IN  \A i \in 1..Len(audio_16khz) :
                /\ InUnitRange(audio_16khz[i])
                /\ FracEq(audio_16khz[i], Frac(audio_16khz_bytes[i], peak))


\* ---------------------------------------------------------------------------
\* Claims about a run without the transcoder
\* ---------------------------------------------------------------------------

\* C16: when ffmpeg is not found the run ends before discovery and dispatch:
\* no task is submitted, no subprocess is started, the store is not read, and
\* neither the output directory nor the metadata table nor a WAV file is
\* created or changed by the run.
C16_AbortBeforeDispatch ==
    pc_main = "fatal" =>
        /\ submitted = 0
        /\ queue = <<>>
        /\ \A w \in Workers : pc[w] = "idle"
        /\ \A f \in Files : decodes[f] = 0 /\ transcodes[f] = 0
        /\ store_reads = 0
        /\ ~output_dir
        /\ ~file_open
        /\ metadata_file = prev_table
        /\ wav = wav0

C16_Witness ==
    /\ pc_main = "fatal"
    /\ run = 2
    /\ metadata_file # <<>>
    /\ \E f \in Files : text[f]

\* C17: when ffmpeg is not found the process ends with a non-zero exit status,
\* which is what the caller of the export sees as a failed export.
C17_NonZeroExit ==
    pc_main = "fatal" => (exit_status # Null /\ exit_status # 0)


\* ---------------------------------------------------------------------------
\* Claims about the speaker and the validation status of a row
\* ---------------------------------------------------------------------------

\* What the row says about the speaker.
RowSpeaker ==
    [speaker_id |-> task_row.speaker_id,
     age |-> task_row.age,
     gender |-> task_row.gender]
\* The speaker of a numeric id: the record of the table when there is one,
\* 'user_<id>' with empty age and gender otherwise.
SpeakerOfId(n) ==
    IF n \in DOMAIN user_mapping
    THEN [speaker_id |-> user_mapping[n].speaker_id,
          age |-> user_mapping[n].age,
          gender |-> user_mapping[n].gender]
    ELSE [speaker_id |-> <<Marker, IntStr(n)>>, age |-> "", gender |-> ""]
\* A component made of the marker followed by digits only.
IsUserComponent(part) == StartsWithMarker(part) /\ IsDigit(Tail(part))

\* C18: the row is always written, and its speaker is one of three: 'unknown'
\* with empty age and gender when no component carries the marker or what
\* follows the marker is not a number; 'user_<id>' with empty age and gender
\* when the number is not in the speaker table; the table's record when it is.
C18_ThreeWayResolution ==
    task_pc = "done" =>
        /\ task_row # None
        /\ LET i == FirstMarked(audio_path)
           IN  IF i = 0 \/ ~IsDigit(Tail(audio_path[i]))
               THEN RowSpeaker = Unknown
               ELSE RowSpeaker = SpeakerOfId(ParseInt(Tail(audio_path[i])))

\* C19: whenever some component of the relative path is the marker followed
\* by digits only, the speaker of the row is resolved from such a component's
\* number, whatever the other components are.
C19_AnyComponentResolves ==
    (task_pc = "done" /\ \E i \in 1..Len(audio_path) :
                             IsUserComponent(audio_path[i])) =>
        \E i \in 1..Len(audio_path) :
            /\ IsUserComponent(audio_path[i])
            /\ RowSpeaker = SpeakerOfId(ParseInt(Tail(audio_path[i])))


\* C20: the status of a row is the status of the record of the validation
\* table whose key is exactly the row's id, and 'pending' when the table has
\* no record under that key; in both cases the row is written.
C20_StatusByExactKey ==
    task_pc = "done" =>
        /\ task_row # None
        /\ task_row.status =
              IF task_row.id \in DOMAIN recording_status
              THEN recording_status[task_row.id].status
              ELSE "pending"

C20_Witness ==
    /\ task_pc = "done"
    /\ task_row # None
    /\ task_row.id = RecKey(7, "teo", "g1", "001")
    /\ task_row.id \in DOMAIN recording_status
    /\ task_row.status = "rejected"


\* ---------------------------------------------------------------------------
\* The pipeline beside a store that other programs change while it runs
\* ---------------------------------------------------------------------------

StoreStatuses == {"pending", "approved", "rejected"}

\* An administrator validates a recording: its status in the store becomes
\* approved or rejected.
StoreChange ==
    /\ \E f \in Files, s \in {"approved", "rejected"} :
          /\ s # store[f]
          /\ store' = [store EXCEPT ![f] = s]
    /\ UNCHANGED <<threshold, text, fault, taskv, webv, snapv, mainv, wav, queue,
                   metadata_file, writer_lock, pc, cur, detector, locals,
                   outcome, hist>>

\* Runs over recordings that all have their transcript and convert without
\* a fault, whatever the store holds.
StoreInit ==
    /\ TaskAtRest
    /\ WebAtRest
    /\ skip_existing_wav = FALSE
    /\ threshold = 1
    /\ text = [f \in Files |-> TRUE]
    /\ fault = [f \in Files |-> "none"]
    /\ wav = [f \in Files |-> "absent"]
    /\ wav0 = wav
    /\ pc_main = "start"
    /\ submitted = 0
    /\ queue = <<>>
    /\ metadata_file = <<>>
    /\ file_open = FALSE
    /\ writer_lock = NoWorker
    /\ pc = [w \in Workers |-> "idle"]
    /\ cur = [w \in Workers |-> NoFile]
    /\ detector = [w \in Workers |-> NoWorker]
    /\ offset_sec = [w \in Workers |-> 0]
    /\ duration_sec = [w \in Workers |-> Null]
    /\ buf = [w \in Workers |-> <<>>]
    /\ outcome = [f \in Files |-> "none"]
    /\ decodes = [f \in Files |-> 0]
    /\ transcodes = [f \in Files |-> 0]
    /\ transcoded_ok = [f \in Files |-> FALSE]
    /\ command = [f \in Files |-> <<Null, Null>>]
    /\ run = 1
    /\ prev_table = <<>>
    /\ store_reads = 0
    /\ output_dir = FALSE
    /\ exit_status = Null
    /\ store \in [Files -> StoreStatuses]
    /\ export_audio = None
    /\ row_status = [f \in Files |-> "none"]
    /\ constructed = [w \in Workers |-> 0]

StoreNext == Next \/ StoreChange

StoreSpec == StoreInit /\ [][StoreNext]_vars

C22_OneDetectorPerWorker ==
    /\ \A w \in Workers :
          /\ constructed[w] <= 1
          /\ detector[w] \in {NoWorker, w}
          /\ (constructed[w] = 1) <=> (detector[w] = w)
          /\ pc[w] \in {"decode", "trim"} => detector[w] = w
    /\ submitted = 0 => \A w \in Workers : constructed[w] = 0

C22_Witness ==
    /\ pc_main = "done"
    /\ constructed[1] = 1
    /\ detector[1] = 1
    /\ constructed[2] = 0
    /\ \A f \in Files : decodes[f] = 1 /\ outcome[f] = "ok"


\* C23: the WAV of a file at relative path p is written at wav/p with the
\* extension replaced by .wav, the id and audio_file of its row are that path
\* relative to the wav directory, and no other file the default glob matches
\* maps to the same output path.
C23_OutputMirrorsInput ==
    task_pc = "done" =>
        LET name == audio_path[Len(audio_path)]
            mirrored == [audio_path EXCEPT ![Len(audio_path)] =
                            SubSeq(name, 1, Len(name) - 1) \o <<".wav">>]
        IN  /\ task_command.output = <<"wav", "/">> \o Str(mirrored)
            /\ task_row.id = Str(mirrored)
            /\ task_row.audio_file = Str(mirrored)
            /\ \A other \in Paths \ {audio_path} :
                  WithSuffix(other, ".wav") # WithSuffix(audio_path, ".wav")


\* C24: a run with skip-existing that finds a partially written WAV, left by
\* a transcode that was cut short in an earlier run, transcodes the file again
\* and never lets its row stand for the partial WAV.
C24_PartialRetranscoded ==
    \A f \in Files :
        (pc_main = "done" /\ skip_existing_wav /\ text[f]
            /\ wav0[f] = "partial") =>
                /\ transcodes[f] >= 1
                /\ RowsOf(metadata_file, f) >= 1 => wav[f] = "full"


\* C25: the header is the first line of the table and the only header in it;
\* it is written before any task is submitted; a worker that writes a row
\* finds the stream open and the header in place; and the stream is closed
\* only when the pool has shut down with every submitted task finished.
C25_HeaderFirstCloseLast ==
    /\ metadata_file # <<>> =>
          /\ metadata_file[1] = Header
          /\ \A i \in 2..Len(metadata_file) : metadata_file[i] # Header
    /\ submitted > 0 =>
          /\ pc_main \notin {"start", "open", "header"}
          /\ metadata_file # <<>>
    /\ \A w \in Workers :
          InWrite(w) => (file_open /\ metadata_file # <<>>)
    /\ pc_main \in {"close", "done"} =>
          /\ queue = <<>>
          /\ \A w \in Workers : pc[w] = "idle"
    /\ pc_main = "done" => ~file_open

C25_Witness ==
    /\ pc_main = "shutdown"
    /\ file_open
    /\ pc[2] = "writing"
    /\ pc[1] = "lock"
    /\ Len(metadata_file) = 1


\* The user whose upload the task's file is, by the upload layout.
OwnerOf(upload) == ParseInt(Tail(upload[1]))

\* C26: an export with a user filter N starts at <uploads>/user_N, so the
\* relative paths carry no marker and every row has speaker 'unknown', empty
\* age and gender and status 'pending', whatever the store holds for user N;
\* the same file exported with filter 'all' resolves to user_N (the store's
\* record of N when there is one) and to the status stored under its key.
C26_FilteredExportLosesSpeaker ==
    \A upload \in Uploads :
        (/\ task_pc = "done"
         /\ IsUnder(upload, InputDir(user_filter))
         /\ audio_path = RelativeTo(upload, InputDir(user_filter))) =>
            IF user_filter = "all"
            THEN /\ RowSpeaker = SpeakerOfId(OwnerOf(upload))
                 /\ task_row.speaker_id = upload[1]
                 /\ LET key == Str(WithSuffix(upload, ".wav"))
                    IN  task_row.status =
                            IF key \in DOMAIN recording_status
                            THEN recording_status[key].status
                            ELSE "pending"
            ELSE /\ RowSpeaker = Unknown
                 /\ task_row.status = "pending"

C26_Witness ==
    /\ task_pc = "done"
    /\ user_filter = "7"
    /\ audio_path = <<<<"teo">>, <<"g1">>, <<"001", ".webm">>>>
    /\ 7 \in DOMAIN user_mapping
    /\ RecKey(7, "teo", "g1", "001") \in DOMAIN recording_status
    /\ task_row.speaker_id = <<"unknown">>
    /\ task_row.status = "pending"



\* ---------------------------------------------------------------------------
\* The submit route of the web application, several requests at a time
\* ---------------------------------------------------------------------------

\* everything of the export; the web application leaves it alone
restv == <<pipev, taskv, threshold>>
ExportAtRest ==
    /\ PipelineAtRest
    /\ TaskAtRest
    /\ threshold = 1

RECURSIVE SumOver(_, _)
SumOver(f, S) ==
    IF S = {} THEN 0
    ELSE LET x == CHOOSE y \in S : TRUE
         IN  f[x] + SumOver(f, S \ {x})

\* contribution_rules.py lines 39-43: recording rows of one sentence
TotalRecordings(table, p) == SumOver(table, Recorders \X {p})

\* faulty variant: the user's own earlier recording is not looked for
AlreadyRecordedIgnored(table, u, p) == FALSE

\* contribution_rules.py lines 28-36: the user has a row for this sentence
AlreadyRecorded(table, u, p) == table[<<u, p>>] > 0

\* contribution_rules.py line 45: the sentence has reached its limit
Saturated(table, p) == TotalRecordings(table, p) >= MAX_RECORDINGS_PER_SENTENCE

\* migration 002 lines 23-24: the constraint unique_user_prompt admits the row
UniqueUserPrompt(table, u, p) == table[<<u, p>>] = 0

\* Recordings made before the requests of the model arrive: each sentence has
\* none, one less than the limit, or the limit, each by a different user.
SubmitInit ==
    /\ ExportAtRest
    /\ \E k \in [Prompts -> {0, MAX_RECORDINGS_PER_SENTENCE - 1,
                             MAX_RECORDINGS_PER_SENTENCE}] :
          recordings = [key \in Recorders \X Prompts |->
                          IF key[1] \in EarlierUsers
                             /\ key[1] - NumContributors <= k[key[2]]
                          THEN 1 ELSE 0]
    /\ req_pc = [r \in Requests |-> "idle"]
    /\ req_user = [r \in Requests |-> 0]
    /\ req_prompt = [r \in Requests |-> 0]
    /\ req_wrote = [r \in Requests |-> FALSE]
    /\ submits = 0
    /\ recording_session = [id \in SessionIds |-> None]
    /\ session_recordings = [id \in SessionIds |-> 0]
    /\ users = <<>>
    /\ users_json = <<>>

\* routes.py lines 180-193: a logged-in user posts a recording of a sentence.
SubmitArrive(r) ==
    /\ req_pc[r] = "idle"
    /\ submits < MaxSubmits
    /\ \E u \in Contributors, p \in Prompts :
          /\ req_user' = [req_user EXCEPT ![r] = u]
          /\ req_prompt' = [req_prompt EXCEPT ![r] = p]
    /\ req_pc' = [req_pc EXCEPT ![r] = "check_own"]
    /\ req_wrote' = [req_wrote EXCEPT ![r] = FALSE]
    /\ submits' = submits + 1
    /\ UNCHANGED <<recordings, sessionv, userv, restv>>

\* routes.py lines 196-201 with contribution_rules.py lines 28-36: rule 1.
CheckOwn(r) ==
    /\ req_pc[r] = "check_own"
    /\ req_pc' = [req_pc EXCEPT ![r] =
                    IF AlreadyRecorded(recordings, req_user[r], req_prompt[r])
                    THEN "rejected_own" ELSE "check_total"]
    /\ UNCHANGED <<recordings, req_user, req_prompt, req_wrote, submits,
                   sessionv, userv, restv>>

\* routes.py lines 196-201 with contribution_rules.py lines 39-48: rule 2.
CheckSaturation(r) ==
    /\ req_pc[r] = "check_total"
    /\ req_pc' = [req_pc EXCEPT ![r] =
                    IF Saturated(recordings, req_prompt[r])
                    THEN "rejected_full" ELSE "save"]
    /\ UNCHANGED <<recordings, req_user, req_prompt, req_wrote, submits,
                   sessionv, userv, restv>>

\* routes.py lines 203-229: the audio and the transcript are written.
SaveFiles(r) ==
    /\ req_pc[r] = "save"
    /\ req_wrote' = [req_wrote EXCEPT ![r] = TRUE]
    /\ req_pc' = [req_pc EXCEPT ![r] = "insert"]
    /\ UNCHANGED <<recordings, req_user, req_prompt, submits, sessionv, userv,
                   restv>>

\* routes.py lines 232-247: the row is added and committed; the table raises
\* an integrity error for a row its unique constraint does not admit.
InsertRecording(r) ==
    /\ req_pc[r] = "insert"
    /\ IF UniqueUserPrompt(recordings, req_user[r], req_prompt[r])
       THEN /\ recordings' = [recordings EXCEPT
                                ![<<req_user[r], req_prompt[r]>>] = @ + 1]
            /\ req_pc' = [req_pc EXCEPT ![r] = "done"]
       ELSE /\ req_pc' = [req_pc EXCEPT ![r] = "error"]
            /\ UNCHANGED recordings
    /\ UNCHANGED <<req_user, req_prompt, req_wrote, submits, sessionv, userv,
                   restv>>

SubmitFinal == {"rejected_own", "rejected_full", "done", "error"}

\* routes.py lines 201, 249-285: the response is sent; the request is over.
Respond(r) ==
    /\ req_pc[r] \in SubmitFinal
    /\ req_pc' = [req_pc EXCEPT ![r] = "idle"]
    /\ req_user' = [req_user EXCEPT ![r] = 0]
    /\ req_prompt' = [req_prompt EXCEPT ![r] = 0]
    /\ req_wrote' = [req_wrote EXCEPT ![r] = FALSE]
    /\ UNCHANGED <<recordings, submits, sessionv, userv, restv>>

SubmitNext ==
    \E r \in Requests :
        \/ SubmitArrive(r)
        \/ CheckOwn(r)
        \/ CheckSaturation(r)
        \/ SaveFiles(r)
        \/ InsertRecording(r)
        \/ Respond(r)

SubmitSpec == SubmitInit /\ [][SubmitNext]_vars

\* C27: whatever the interleaving of submit requests, no sentence ever has
\* more than MAX_RECORDINGS_PER_SENTENCE recordings.
C27_SentenceLimitKept ==
    \A p \in Prompts :
        TotalRecordings(recordings, p) <= MAX_RECORDINGS_PER_SENTENCE

\* C28: a user never has two recordings of one sentence, and a submit for a
\* sentence its user has already recorded is rejected having written neither
\* files nor a row.
C28_OneRecordingPerUserAndSentence ==
    /\ [](/\ \A key \in Recorders \X Prompts : recordings[key] <= 1
          /\ \A r \in Requests : req_pc[r] = "rejected_own" => ~req_wrote[r])
    /\ [][\A r \in Requests :
            (/\ req_pc[r] = "check_own"
             /\ recordings[<<req_user[r], req_prompt[r]>>] > 0
             /\ req_pc'[r] # req_pc[r])
            => (/\ req_pc'[r] = "rejected_own"
                /\ recordings' = recordings
                /\ req_wrote'[r] = FALSE)]_vars

C28_Witness ==
    \E r \in Requests :
        /\ req_pc[r] = "rejected_own"
        /\ recordings[<<req_user[r], req_prompt[r]>>] = 1
        /\ ~req_wrote[r]
        /\ submits > 1



\* ---------------------------------------------------------------------------
\* Recording sessions: get_or_create_session and update_session_progress
\* ---------------------------------------------------------------------------

SubmitAtRest ==
    /\ recordings = [k \in Recorders \X Prompts |-> 0]
    /\ req_pc = [r \in Requests |-> "idle"]
    /\ req_user = [r \in Requests |-> 0]
    /\ req_prompt = [r \in Requests |-> 0]
    /\ req_wrote = [r \in Requests |-> FALSE]
    /\ submits = 0

SessionInit ==
    /\ ExportAtRest
    /\ SubmitAtRest
    /\ recording_session = [id \in SessionIds |-> None]
    /\ session_recordings = [id \in SessionIds |-> 0]
    /\ users = <<>>
    /\ users_json = <<>>

\* the row a new RecordingSession is stored as: active, nothing recorded yet
NewSession(u) == [user_id |-> u, is_active |-> TRUE, recordings_count |-> 0]

\* contribution_rules.py lines 56-60 and 182-186: the active sessions of a user
ActiveSessions(table, u) ==
    {id \in SessionIds : /\ table[id] # None
                         /\ table[id].user_id = u
                         /\ table[id].is_active}

\* faulty variant: a session is not ended when it reaches the limit
LimitNeverReached(count) == FALSE

\* contribution_rules.py lines 70 and 104: the session has reached its limit
LimitReached(count) == count >= RECORDINGS_PER_SESSION

\* contribution_rules.py lines 66-68, 72-74, 105-106: the session is ended
EndSession(row) == [row EXCEPT !.is_active = FALSE]

\* contribution_rules.py lines 95-109: update_session_progress on a table
\* whose recording table holds rows[id] rows of session id
UpdateProgress(table, rows, id) ==
    IF table[id] = None THEN table
    ELSE LET counted == [table[id] EXCEPT !.recordings_count = rows[id]]
         IN  [table EXCEPT ![id] = IF LimitReached(rows[id])
                                   THEN EndSession(counted) ELSE counted]

\* contribution_rules.py lines 80-86: a session row under a fresh id
CreateSession(table, u) ==
    LET free == {id \in SessionIds : table[id] = None}
        id == CHOOSE i \in free : \A j \in free : i <= j
    IN  [table EXCEPT ![id] = NewSession(u)]

\* contribution_rules.py lines 51-88: get_or_create_session for user u;
\* timed_out says whether the session found started over 30 minutes ago.
GetOrCreateSession(u, timed_out) ==
    /\ \/ /\ ActiveSessions(recording_session, u) = {}
          /\ \E id \in SessionIds : recording_session[id] = None
          /\ recording_session' = CreateSession(recording_session, u)
       \/ \E id \in ActiveSessions(recording_session, u) :
             IF timed_out \/ LimitReached(recording_session[id].recordings_count)
             THEN /\ \E free \in SessionIds : recording_session[free] = None
                  /\ recording_session' =
                        CreateSession([recording_session EXCEPT
                                         ![id] = EndSession(@)], u)
             ELSE UNCHANGED recording_session
    /\ UNCHANGED <<session_recordings, submitv, userv, restv>>

\* routes.py lines 232-247: submit adds a recording carrying session id and
\* calls update_session_progress before it commits.
SubmitInSession(id) ==
    /\ recording_session[id] # None
    /\ session_recordings[id] < MaxSessionRecordings
    /\ session_recordings' = [session_recordings EXCEPT ![id] = @ + 1]
    /\ recording_session' =
          UpdateProgress(recording_session, session_recordings', id)
    /\ UNCHANGED <<submitv, userv, restv>>

\* contribution_rules.py lines 91-109: update_session_progress on its own,
\* for any session id, known or not.
UpdateSessionProgress(id) ==
    /\ recording_session' =
          UpdateProgress(recording_session, session_recordings, id)
    /\ UNCHANGED <<session_recordings, submitv, userv, restv>>

SessionNext ==
    \/ \E u \in Contributors, timed_out \in BOOLEAN :
          GetOrCreateSession(u, timed_out)
    \/ \E id \in SessionIds : SubmitInSession(id)
    \/ \E id \in SessionIds : UpdateSessionProgress(id)

SessionSpec == SessionInit /\ [][SessionNext]_vars

\* contribution_rules.py lines 188-196: the recordings_in_session values
\* get_user_progress can report for user u
RecordingsInSession(u) ==
    {recording_session[id].recordings_count :
        id \in ActiveSessions(recording_session, u)}

\* C29: no session is active with recordings_count at or above the session
\* limit, get_user_progress therefore reports fewer than the limit, and an
\* ended session never becomes active again.
C29_ActiveSessionBelowLimit ==
    /\ [](/\ \A id \in SessionIds :
                recording_session[id] # None =>
                    ~(/\ recording_session[id].is_active
                      /\ recording_session[id].recordings_count
                            >= RECORDINGS_PER_SESSION)
          /\ \A u \in Contributors : \A n \in RecordingsInSession(u) :
                n < RECORDINGS_PER_SESSION)
    /\ [][\A id \in SessionIds :
            (recording_session[id] # None /\ ~recording_session[id].is_active)
            => (recording_session'[id] # None
                /\ ~recording_session'[id].is_active)]_vars

C29_Witness ==
    \E a, b \in SessionIds :
        /\ a # b
        /\ recording_session[a] # None
        /\ recording_session[b] # None
        /\ recording_session[a].user_id = recording_session[b].user_id
        /\ ~recording_session[a].is_active
        /\ recording_session[a].recordings_count = RECORDINGS_PER_SESSION
        /\ recording_session[b].is_active
        /\ recording_session[b].recordings_count = RECORDINGS_PER_SESSION - 1



\* ---------------------------------------------------------------------------
\* The user manager of auth.py
\* ---------------------------------------------------------------------------

Usernames == {"ann", "Ann", "bob", "cat"}
Passwords == {"p1", "p2"}
\* the keyword arguments update_user looks at
Keywords == {"username", "password", "is_admin"}

\* str.lower() on the usernames of the model
Lower(name) == IF name = "Ann" THEN "ann" ELSE name

\* auth.py lines 18-19: the stored hash of a password
PasswordHash(password) == <<"hash", password>>

SessionAtRest ==
    /\ recording_session = [id \in SessionIds |-> None]
    /\ session_recordings = [id \in SessionIds |-> 0]

\* auth.py lines 49-52: a manager constructed where no users file exists
UserInit ==
    /\ ExportAtRest
    /\ SubmitAtRest
    /\ SessionAtRest
    /\ users = <<>>
    /\ users_json = <<>>

\* auth.py lines 81-85: get_user_by_username finds a user
UsernameInUse(table, name) ==
    \E id \in DOMAIN table : Lower(table[id].username) = Lower(name)

\* auth.py line 91: the id a new user gets, str(len(self.users) + 1)
NewUserId(table) == Cardinality(DOMAIN table) + 1

\* the table with key id bound to user
Put(table, id, user) ==
    [i \in DOMAIN table \cup {id} |-> IF i = id THEN user ELSE table[i]]

\* auth.py lines 87-97: create_user
create_user(username, password, is_admin) ==
    /\ Cardinality(DOMAIN users) < MaxUsers
    /\ IF UsernameInUse(users, username)
       THEN UNCHANGED userv
       ELSE /\ users' = Put(users, NewUserId(users),
                            [id |-> NewUserId(users),
                             username |-> username,
                             password_hash |-> PasswordHash(password),
                             is_admin |-> is_admin])
            /\ users_json' = users'
    /\ UNCHANGED <<submitv, sessionv, restv>>

\* auth.py lines 99-117: update_user; kwargs holds the keywords in the call
update_user(user_id, kwargs, username, password, is_admin) ==
    /\ IF user_id \notin DOMAIN users
       THEN UNCHANGED userv
       ELSE IF /\ "username" \in kwargs
               /\ \E id \in DOMAIN users :
                     /\ Lower(users[id].username) = Lower(username)
                     /\ users[id].id # user_id
            THEN UNCHANGED userv
            ELSE /\ users' = [users EXCEPT ![user_id] =
                     [id |-> @.id,
                      username |-> IF "username" \in kwargs
                                   THEN username ELSE @.username,
                      password_hash |-> IF "password" \in kwargs /\ password # ""
                                        THEN PasswordHash(password)
                                        ELSE @.password_hash,
                      is_admin |-> IF "is_admin" \in kwargs
                                   THEN is_admin ELSE @.is_admin]]
                 /\ users_json' = users'
    /\ UNCHANGED <<submitv, sessionv, restv>>

\* auth.py lines 119-124: delete_user
delete_user(user_id) ==
    /\ IF user_id \in DOMAIN users
       THEN /\ users' = [i \in DOMAIN users \ {user_id} |-> users[i]]
            /\ users_json' = users'
       ELSE UNCHANGED userv
    /\ UNCHANGED <<submitv, sessionv, restv>>

UserIds == 1..MaxUsers

UserNext ==
    \/ \E username \in Usernames, password \in Passwords, is_admin \in BOOLEAN :
          create_user(username, password, is_admin)
    \/ \E user_id \in UserIds, kwargs \in SUBSET Keywords,
          username \in Usernames, password \in Passwords \cup {""},
          is_admin \in BOOLEAN :
          update_user(user_id, kwargs, username, password, is_admin)
    \/ \E user_id \in UserIds : delete_user(user_id)

UserSpec == UserInit /\ [][UserNext]_vars

\* C30: a create_user call with a username not in use adds exactly one user
\* and leaves the entry of every user that existed before it as it was.
C30_CreateAddsOneUser ==
    [][\A username \in Usernames, password \in Passwords, is_admin \in BOOLEAN :
         (/\ create_user(username, password, is_admin)
          /\ ~UsernameInUse(users, username))
         => (/\ Cardinality(DOMAIN users') = Cardinality(DOMAIN users) + 1
             /\ \A id \in DOMAIN users :
                   /\ id \in DOMAIN users'
                   /\ users'[id] = users[id])]_vars

====
